---- MODULE Spec2Model ----
(***************************************************************************)
(* A model of parpar/gf16/threadqueue.h: the mutex/condvar queue           *)
(* ThreadMessageQueue<T>, the worker thread MessageThread built on it and  *)
(* the libuv bridge ThreadNotifyQueue<P>.                                  *)
(*                                                                         *)
(* Every critical section of ThreadMessageQueue runs between mutex_lock    *)
(* and mutex_unlock and never blocks inside (pop's wait releases the       *)
(* mutex atomically), so each critical section is one atomic action.       *)
(* The fields of MessageThread (threadActive, threadCreated, thread) are   *)
(* read and written without any lock, so every access to them is a step    *)
(* of its own.                                                             *)
(***************************************************************************)
EXTENDS Integers, Sequences, FiniteSets, TLC

\* ---- bounds of the model ----
MaxItems == 3      \* items handed to send/send_multi over a run
MaxMulti == 2      \* longest list handed to send_multi
MaxThreads == 2    \* OS threads created over a run
MaxObjs == 2       \* objects constructed over a run (SpecObj, SpecMove)
MaxSends == 1      \* items handed to send over a run of SpecMove

\* ---- program constants ----
NULL == 0          \* the sentinel of thread_func: while((item = q.pop()) != NULL)

Controller == "ctl"
Producers == {"p1", "p2"}
AllCallers == {Controller} \cup Producers

VARIABLES
    q,             \* ThreadMessageQueue::q, head first (the q of the MessageThread in Spec and
                   \* SpecMP, of the ThreadNotifyQueue in SpecN, the queue itself in SpecQ)
    threadActive,  \* MessageThread::threadActive
    threadCreated, \* MessageThread::threadCreated
    thread,        \* MessageThread::thread: the id of the OS thread the handle holds, 0 for none
    joined,        \* the OS threads that have been joined
    wpc,           \* per OS thread that calls pop (thread_func; the consumer of SpecQ): its position
    witem,         \* per OS thread that calls pop: the item pop returned (`item` of thread_func)
    pc,            \* per calling thread: its position inside the method it is calling
                   \* (a method of MessageThread; notify of the ThreadNotifyQueue in SpecN)
    op,            \* per calling thread: the method it is calling
    arg,           \* per calling thread: the items it passes to send/send_multi
    entry,         \* per calling thread: the lifecycle state it found when it made the call
    nitems,        \* number of items handed out so far (each item is a fresh number)
    aborted,       \* the process was terminated (std::terminate)
    tpc,           \* the thread that calls trypop (the loop thread, for the bridge): its position
    tpItem,        \* the output slot handed to trypop: <<>> while never written, else <<value>>
    tpRet,         \* what the last trypop returned
    apending,      \* ThreadNotifyQueue::a: uv_async_send was called and the loop has not run the handler since
    wakeups,       \* history: number of runs of the wakeup handler
    qAtWake,       \* history: items delivered or queued when the handler last started
    pushed,        \* history: every value appended to q, in the order of the appends
    taken,         \* history: every value removed from q, in the order of the removals
    dispatched,    \* history: every callback invocation [t |-> thread, item |-> item], in order
    closePc,       \* ThreadNotifyQueue::close: "open", "data_set" (a.data replaced), "closing"
                   \* (uv_close called), "closed" (the handle is released)
    closeArg,      \* tnqCloseWrap::data of the wrap a.data points to, <<>> while a.data is `this`
    closeLog,      \* history: the data of every invocation of the close callback, in order
    mutexOwner,    \* SpecL: the thread that holds ThreadMessageQueue::mutex, "none" if free
    batches,       \* SpecL, history: the lists handed to push_multi so far
    build,         \* SpecObj, SpecMove: "uv" with USE_LIBUV defined, "std" without
    objs,          \* SpecObj, SpecMove: per object, its lifetime state and its fields
    res,           \* SpecObj, SpecMove: per initialised mutex/cond pair, how often it was destroyed
    wself          \* SpecMove: per OS thread, the object `parent` of thread_func points to

vars == <<q, threadActive, threadCreated, thread, joined, wpc, witem, pc, op, arg,
          entry, nitems, aborted, tpc, tpItem, tpRet, apending, wakeups, qAtWake,
          pushed, taken, dispatched, closePc, closeArg, closeLog, mutexOwner, batches,
          build, objs, res, wself>>

mtVars == <<threadActive, threadCreated, thread, joined>>
callVars == <<op, arg, entry, nitems>>
histVars == <<pushed, taken, dispatched>>
tpVars == <<tpc, tpItem, tpRet>>
uvVars == <<apending, wakeups, qAtWake>>
\* what the MessageThread actions leave alone
otherVars == <<tpVars, uvVars>>
closeVars == <<closePc, closeArg, closeLog>>
objVars == <<build, objs, res, wself>>
\* what the actions of the first four specifications leave alone
lockVars == <<mutexOwner, batches>>
xVars == <<closeVars, lockVars, objVars>>

\* the variables of the other specifications, at rest
XInit ==
    /\ closePc = "open"
    /\ closeArg = <<>>
    /\ closeLog = <<>>
    /\ mutexOwner = "none"
    /\ batches = {}
    /\ build = "any"
    /\ objs = <<>>
    /\ res = <<>>
    /\ wself = <<>>

\* ------------------------------------------------------------------------
\* ThreadMessageQueue<T>: the queue operations, as functions of the queue
\* ------------------------------------------------------------------------

\* push: q.push(item)
push(qq, item) == Append(qq, item)

\* push_multi: for(it = list.cbegin(); it != list.cend(); ++it) q.push(*it)
RECURSIVE push_multi(_, _)
push_multi(qq, list) ==
    IF list = <<>> THEN qq ELSE push_multi(push(qq, Head(list)), Tail(list))

\* q.empty()
empty(qq) == Len(qq) = 0

\* mutant of front: q.back() in place of q.front()
Mut_front_back(qq) == qq[Len(qq)]

\* q.front()
front(qq) == qq[1]

\* mutant of pop_front: the q.pop() after q.front() is forgotten
Mut_pop_front_keep(qq) == qq

\* q.pop()
pop_front(qq) == SubSeq(qq, 2, Len(qq))

\* mutant of condvar_signal: the signal after the push is forgotten
Mut_condvar_no_signal(w) == {w}

\* condvar_signal(cond): wakes one of the threads waiting in pop, if any
condvar_signal(w) ==
    LET waiters == {t \in DOMAIN w : w[t] = "waiting"}
    IN  IF waiters = {} THEN {w}
        ELSE {[w EXCEPT ![t] = "pop"] : t \in waiters}

\* ------------------------------------------------------------------------
\* MessageThread: the calling threads
\* ------------------------------------------------------------------------

StartPcs == {"start_chk", "start_setactive", "start_chkcreated", "start_join",
             "start_setcreated", "start_create"}

\* The model stops calling start() when another thread could exceed MaxThreads.
CanCreate ==
    \/ threadActive
    \/ Len(wpc) + Cardinality({c \in AllCallers : pc[c] \in StartPcs}) < MaxThreads

\* the state machine of the instance, as its flags tell it
LifeState ==
    IF threadActive THEN "active" ELSE IF threadCreated THEN "stopping" ELSE "idle"

Enter(c) == entry' = [entry EXCEPT ![c] = LifeState]

Goto(c, l) == pc' = [pc EXCEPT ![c] = l]

\* where a caller continues when start() returns
AfterStart(c) == IF op[c] = "start" THEN "idle" ELSE "push"

\* a thread handle that holds a thread which has not been joined
Joinable(h) == h # 0 /\ h \notin joined

call_start(c) ==
    /\ ~aborted /\ pc[c] = "idle" /\ CanCreate
    /\ Goto(c, "start_chk")
    /\ op' = [op EXCEPT ![c] = "start"]
    /\ Enter(c)
    /\ arg' = [arg EXCEPT ![c] = <<>>]
    /\ UNCHANGED <<xVars, otherVars, q, mtVars, wpc, witem, nitems, aborted, histVars>>

call_send(c) ==
    /\ ~aborted /\ pc[c] = "idle" /\ CanCreate
    /\ nitems < MaxItems
    /\ Goto(c, "start_chk")
    /\ op' = [op EXCEPT ![c] = "send"]
    /\ Enter(c)
    /\ arg' = [arg EXCEPT ![c] = <<nitems + 1>>]
    /\ nitems' = nitems + 1
    /\ UNCHANGED <<xVars, otherVars, q, mtVars, wpc, witem, aborted, histVars>>

call_send_multi(c) ==
    /\ ~aborted /\ pc[c] = "idle" /\ CanCreate
    /\ \E k \in 0..MaxMulti :
        /\ nitems + k <= MaxItems
        /\ arg' = [arg EXCEPT ![c] = [i \in 1..k |-> nitems + i]]
        /\ nitems' = nitems + k
    /\ Goto(c, "start_chk")
    /\ op' = [op EXCEPT ![c] = "send_multi"]
    /\ Enter(c)
    /\ UNCHANGED <<xVars, otherVars, q, mtVars, wpc, witem, aborted, histVars>>

call_end(c) ==
    /\ ~aborted /\ pc[c] = "idle"
    /\ Goto(c, "end_chk")
    /\ op' = [op EXCEPT ![c] = "end"]
    /\ Enter(c)
    /\ arg' = [arg EXCEPT ![c] = <<>>]
    /\ UNCHANGED <<xVars, otherVars, q, mtVars, wpc, witem, nitems, aborted, histVars>>

call_dtor(c) ==
    /\ ~aborted /\ pc[c] = "idle"
    /\ Goto(c, "dtor_chk")
    /\ op' = [op EXCEPT ![c] = "dtor"]
    /\ Enter(c)
    /\ arg' = [arg EXCEPT ![c] = <<>>]
    /\ UNCHANGED <<xVars, otherVars, q, mtVars, wpc, witem, nitems, aborted, histVars>>

\* start(): if(threadActive) return;
start_check(c) ==
    /\ ~aborted /\ pc[c] = "start_chk"
    /\ IF threadActive THEN Goto(c, AfterStart(c)) ELSE Goto(c, "start_setactive")
    /\ UNCHANGED <<xVars, otherVars, q, mtVars, wpc, witem, callVars, aborted, histVars>>

\* start(): threadActive = true;
start_set_active(c) ==
    /\ ~aborted /\ pc[c] = "start_setactive"
    /\ threadActive' = TRUE
    /\ Goto(c, "start_chkcreated")
    /\ UNCHANGED <<xVars, otherVars, q, threadCreated, thread, joined, wpc, witem, callVars, aborted, histVars>>

\* mutant of start_check_created: start() without the join of the previous thread
Mut_start_no_join(c) ==
    /\ ~aborted /\ pc[c] = "start_chkcreated"
    /\ Goto(c, "start_setcreated")
    /\ UNCHANGED <<xVars, otherVars, q, mtVars, wpc, witem, callVars, aborted, histVars>>

\* start(): if(threadCreated) thread_join(thread);
start_check_created(c) ==
    /\ ~aborted /\ pc[c] = "start_chkcreated"
    /\ IF threadCreated THEN Goto(c, "start_join") ELSE Goto(c, "start_setcreated")
    /\ UNCHANGED <<xVars, otherVars, q, mtVars, wpc, witem, callVars, aborted, histVars>>

\* mutant of thread_join: the join returns without waiting for the thread to end
Mut_join_no_wait(c, l) ==
    /\ joined' = joined \cup {thread}
    /\ Goto(c, l)
    /\ UNCHANGED aborted

\* thread_join(thread): returns once the thread has ended. Joining a handle that
\* holds no joinable thread is undefined: the call returns (its error is ignored)
\* or the process is terminated.
thread_join(c, l) ==
    IF Joinable(thread)
    THEN /\ wpc[thread] = "exited"
         /\ joined' = joined \cup {thread}
         /\ Goto(c, l)
         /\ UNCHANGED aborted
    ELSE /\ \/ Goto(c, l) /\ UNCHANGED aborted
            \/ aborted' = TRUE /\ UNCHANGED pc
         /\ UNCHANGED joined

start_join(c) ==
    /\ ~aborted /\ pc[c] = "start_join"
    /\ thread_join(c, "start_setcreated")
    /\ UNCHANGED <<xVars, otherVars, q, threadActive, threadCreated, thread, wpc, witem, callVars, histVars>>

\* start(): threadCreated = true;
start_set_created(c) ==
    /\ ~aborted /\ pc[c] = "start_setcreated"
    /\ threadCreated' = TRUE
    /\ Goto(c, "start_create")
    /\ UNCHANGED <<xVars, otherVars, q, threadActive, thread, joined, wpc, witem, callVars, aborted, histVars>>

\* thread_create(thread, thread_func, this): a new OS thread starts thread_func and
\* the handle holds it. With a handle that still holds a joinable thread,
\* std::thread's assignment terminates the process and uv_thread_create
\* overwrites the handle.
thread_create(c) ==
    \/ /\ wpc' = Append(wpc, "pop")
       /\ witem' = Append(witem, NULL)
       /\ thread' = Len(wpc) + 1
       /\ Goto(c, AfterStart(c))
       /\ UNCHANGED aborted
    \/ /\ Joinable(thread)
       /\ aborted' = TRUE
       /\ UNCHANGED <<wpc, witem, thread, pc>>

start_create(c) ==
    /\ ~aborted /\ pc[c] = "start_create"
    /\ thread_create(c)
    /\ UNCHANGED <<xVars, otherVars, q, threadActive, threadCreated, joined, callVars, histVars>>

\* mutant of send_push: a bounded queue, whose push waits for room
Mut_push_bounded(c) ==
    /\ ~aborted /\ pc[c] = "push"
    /\ Len(q) = 0
    /\ q' = IF op[c] = "send" THEN push(q, arg[c][1]) ELSE push_multi(q, arg[c])
    /\ wpc' \in condvar_signal(wpc)
    /\ pushed' = pushed \o arg[c]
    /\ Goto(c, "idle")
    /\ UNCHANGED <<xVars, otherVars, mtVars, witem, callVars, aborted, taken, dispatched>>

\* send(): q.push(item);  send_multi(): q.push_multi(items);
send_push(c) ==
    /\ ~aborted /\ pc[c] = "push"
    /\ q' = IF op[c] = "send" THEN push(q, arg[c][1]) ELSE push_multi(q, arg[c])
    /\ wpc' \in condvar_signal(wpc)
    /\ pushed' = pushed \o arg[c]
    /\ Goto(c, "idle")
    /\ UNCHANGED <<xVars, otherVars, mtVars, witem, callVars, aborted, taken, dispatched>>

\* mutant of end_check: end() without the test of threadActive
Mut_end_no_check(c) ==
    /\ ~aborted /\ pc[c] = "end_chk"
    /\ Goto(c, "end_push")
    /\ UNCHANGED <<xVars, otherVars, q, mtVars, wpc, witem, callVars, aborted, histVars>>

\* end(): if(threadActive) {
end_check(c) ==
    /\ ~aborted /\ pc[c] = "end_chk"
    /\ IF threadActive THEN Goto(c, "end_push") ELSE Goto(c, "idle")
    /\ UNCHANGED <<xVars, otherVars, q, mtVars, wpc, witem, callVars, aborted, histVars>>

\* end(): q.push(NULL);
end_push(c) ==
    /\ ~aborted /\ pc[c] = "end_push"
    /\ q' = push(q, NULL)
    /\ wpc' \in condvar_signal(wpc)
    /\ pushed' = Append(pushed, NULL)
    /\ Goto(c, "end_clear")
    /\ UNCHANGED <<xVars, otherVars, mtVars, witem, callVars, aborted, taken, dispatched>>

\* mutant of end_clear: end() returns without clearing threadActive
Mut_end_no_clear(c) ==
    /\ ~aborted /\ pc[c] = "end_clear"
    /\ Goto(c, "idle")
    /\ UNCHANGED <<xVars, otherVars, q, mtVars, wpc, witem, callVars, aborted, histVars>>

\* end(): threadActive = false;
end_clear(c) ==
    /\ ~aborted /\ pc[c] = "end_clear"
    /\ threadActive' = FALSE
    /\ Goto(c, "idle")
    /\ UNCHANGED <<xVars, otherVars, q, threadCreated, thread, joined, wpc, witem, callVars, aborted, histVars>>

\* ~MessageThread(): if(threadActive)
dtor_check(c) ==
    /\ ~aborted /\ pc[c] = "dtor_chk"
    /\ IF threadActive THEN Goto(c, "dtor_push") ELSE Goto(c, "dtor_chkcreated")
    /\ UNCHANGED <<xVars, otherVars, q, mtVars, wpc, witem, callVars, aborted, histVars>>

\* mutant of dtor_push: the destructor joins without pushing the sentinel
Mut_dtor_no_sentinel(c) ==
    /\ ~aborted /\ pc[c] = "dtor_push"
    /\ Goto(c, "dtor_chkcreated")
    /\ UNCHANGED <<xVars, otherVars, q, mtVars, wpc, witem, callVars, aborted, histVars>>

\* ~MessageThread(): q.push(NULL);
dtor_push(c) ==
    /\ ~aborted /\ pc[c] = "dtor_push"
    /\ q' = push(q, NULL)
    /\ wpc' \in condvar_signal(wpc)
    /\ pushed' = Append(pushed, NULL)
    /\ Goto(c, "dtor_chkcreated")
    /\ UNCHANGED <<xVars, otherVars, mtVars, witem, callVars, aborted, taken, dispatched>>

\* mutant of dtor_check_created: a destructor that does not join
Mut_dtor_no_join(c) ==
    /\ ~aborted /\ pc[c] = "dtor_chkcreated"
    /\ Goto(c, "destroyed")
    /\ UNCHANGED <<xVars, otherVars, q, mtVars, wpc, witem, callVars, aborted, histVars>>

\* ~MessageThread(): if(threadCreated) thread_join(thread);
dtor_check_created(c) ==
    /\ ~aborted /\ pc[c] = "dtor_chkcreated"
    /\ IF threadCreated THEN Goto(c, "dtor_join") ELSE Goto(c, "destroyed")
    /\ UNCHANGED <<xVars, otherVars, q, mtVars, wpc, witem, callVars, aborted, histVars>>

dtor_join(c) ==
    /\ ~aborted /\ pc[c] = "dtor_join"
    /\ thread_join(c, "destroyed")
    /\ UNCHANGED <<xVars, otherVars, q, threadActive, threadCreated, thread, wpc, witem, callVars, histVars>>

\* ------------------------------------------------------------------------
\* MessageThread::thread_func: the OS threads
\* ------------------------------------------------------------------------

\* pop(): with the mutex held, wait on the condition while the queue is empty,
\* then take the head
pop(t) ==
    /\ ~aborted /\ t \in DOMAIN wpc /\ wpc[t] = "pop"
    /\ IF empty(q)
       THEN /\ wpc' = [wpc EXCEPT ![t] = "waiting"]
            /\ UNCHANGED <<q, witem, taken>>
       ELSE /\ witem' = [witem EXCEPT ![t] = front(q)]
            /\ q' = pop_front(q)
            /\ taken' = Append(taken, front(q))
            /\ wpc' = [wpc EXCEPT ![t] = "got"]
    /\ UNCHANGED <<xVars, otherVars, mtVars, pc, callVars, aborted, pushed, dispatched>>

\* a condition wait may return without any signal
spurious_wakeup(t) ==
    /\ ~aborted /\ t \in DOMAIN wpc /\ wpc[t] = "waiting"
    /\ wpc' = [wpc EXCEPT ![t] = "pop"]
    /\ UNCHANGED <<xVars, otherVars, q, mtVars, witem, pc, callVars, aborted, histVars>>

\* while((item = q.pop()) != NULL) { cb(item);
thread_func_test(t) ==
    /\ ~aborted /\ t \in DOMAIN wpc /\ wpc[t] = "got"
    /\ IF witem[t] # NULL
       THEN /\ wpc' = [wpc EXCEPT ![t] = "cb"]
            /\ dispatched' = Append(dispatched, [t |-> t, item |-> witem[t]])
       ELSE /\ wpc' = [wpc EXCEPT ![t] = "exited"]
            /\ UNCHANGED dispatched
    /\ UNCHANGED <<xVars, otherVars, q, mtVars, witem, pc, callVars, aborted, pushed, taken>>

\* cb(item) returns
thread_func_cb_return(t) ==
    /\ ~aborted /\ t \in DOMAIN wpc /\ wpc[t] = "cb"
    /\ wpc' = [wpc EXCEPT ![t] = "pop"]
    /\ UNCHANGED <<xVars, otherVars, q, mtVars, witem, pc, callVars, aborted, histVars>>

ThreadIds == 1..MaxThreads

WorkerStep ==
    \E t \in ThreadIds :
        \/ pop(t)
        \/ spurious_wakeup(t)
        \/ thread_func_test(t)
        \/ thread_func_cb_return(t)

StartStep(c) ==
    \/ start_check(c)
    \/ start_set_active(c)
    \/ start_check_created(c)
    \/ start_join(c)
    \/ start_set_created(c)
    \/ start_create(c)

\* ------------------------------------------------------------------------
\* Spec: one MessageThread used by one controlling thread
\* ------------------------------------------------------------------------

\* the members of one instance after construction, the calling threads outside any call
InitBase ==
    /\ q = <<>>
    /\ threadActive = FALSE
    /\ threadCreated = FALSE
    /\ thread = 0
    /\ joined = {}
    /\ wpc = <<>>
    /\ witem = <<>>
    /\ pc = [c \in AllCallers |-> "idle"]
    /\ op = [c \in AllCallers |-> "none"]
    /\ arg = [c \in AllCallers |-> <<>>]
    /\ entry = [c \in AllCallers |-> "idle"]
    /\ nitems = 0
    /\ aborted = FALSE
    /\ tpc = "idle"
    /\ tpItem = <<>>
    /\ tpRet = FALSE
    /\ apending = FALSE
    /\ wakeups = 0
    /\ qAtWake = 0
    /\ pushed = <<>>
    /\ taken = <<>>
    /\ dispatched = <<>>

\* MessageThread(thread_cb_t callback)
Init == InitBase /\ XInit

CallerStep(c) ==
    \/ call_start(c)
    \/ call_send(c)
    \/ call_send_multi(c)
    \/ call_end(c)
    \/ call_dtor(c)
    \/ StartStep(c)
    \/ send_push(c)
    \/ end_check(c)
    \/ end_push(c)
    \/ end_clear(c)
    \/ dtor_check(c)
    \/ dtor_push(c)
    \/ dtor_check_created(c)
    \/ dtor_join(c)

Next ==
    \/ CallerStep(Controller)
    \/ WorkerStep

Spec == Init /\ [][Next]_vars

\* ------------------------------------------------------------------------
\* SpecFair: Spec under fair scheduling: a worker thread that can run does
\* run, every callback returns, and the controlling thread goes on inside
\* start() and inside the destructor. Nothing is assumed about which
\* methods the controlling thread calls, or about wakeups without a signal.
\* ------------------------------------------------------------------------

DtorStep(c) ==
    \/ dtor_check(c)
    \/ dtor_push(c)
    \/ dtor_check_created(c)
    \/ dtor_join(c)

SpecFair ==
    /\ Spec
    /\ \A t \in ThreadIds :
        /\ WF_vars(pop(t))
        /\ WF_vars(thread_func_test(t))
        /\ WF_vars(thread_func_cb_return(t))
    /\ WF_vars(StartStep(Controller))
    /\ WF_vars(DtorStep(Controller))

\* ------------------------------------------------------------------------
\* SpecMP: one MessageThread and several producer threads calling
\* send/send_multi with no lock around the calls
\* ------------------------------------------------------------------------

ProducerStep(c) ==
    \/ call_send(c)
    \/ call_send_multi(c)
    \/ StartStep(c)
    \/ send_push(c)

NextMP ==
    \/ \E c \in Producers : ProducerStep(c)
    \/ WorkerStep

SpecMP == Init /\ [][NextMP]_vars

\* ------------------------------------------------------------------------
\* SpecQ: one ThreadMessageQueue used directly: producer threads call push and
\* push_multi, one thread calls pop in a loop, one thread calls trypop in a loop
\* ------------------------------------------------------------------------

\* trypop: notEmpty = !q.empty(); ... return notEmpty;
trypop_ret(qq) == ~empty(qq)

\* mutant of trypop_item: the slot is written whether or not the queue is empty
Mut_trypop_item_always(qq, slot) == IF empty(qq) THEN <<NULL>> ELSE <<front(qq)>>

\* trypop: if(notEmpty) { *item = q.front();
trypop_item(qq, slot) == IF ~empty(qq) THEN <<front(qq)>> ELSE slot

\* trypop: if(notEmpty) { ... q.pop(); }
trypop_queue(qq) == IF ~empty(qq) THEN pop_front(qq) ELSE qq

\* the critical section of trypop
trypop ==
    /\ tpRet' = trypop_ret(q)
    /\ tpItem' = trypop_item(q, tpItem)
    /\ q' = trypop_queue(q)
    /\ taken' = IF trypop_ret(q) THEN Append(taken, front(q)) ELSE taken

\* a producer thread calls push(item)
queue_push ==
    /\ ~aborted /\ nitems < MaxItems
    /\ q' = push(q, nitems + 1)
    /\ wpc' \in condvar_signal(wpc)
    /\ pushed' = Append(pushed, nitems + 1)
    /\ nitems' = nitems + 1
    /\ UNCHANGED <<xVars, otherVars, mtVars, witem, pc, op, arg, entry, aborted, taken, dispatched>>

\* a producer thread calls push_multi(list)
queue_push_multi ==
    /\ ~aborted
    /\ \E k \in 0..MaxMulti :
        /\ nitems + k <= MaxItems
        /\ LET list == [i \in 1..k |-> nitems + i]
           IN  /\ q' = push_multi(q, list)
               /\ pushed' = pushed \o list
        /\ nitems' = nitems + k
    /\ wpc' \in condvar_signal(wpc)
    /\ UNCHANGED <<xVars, otherVars, mtVars, witem, pc, op, arg, entry, aborted, taken, dispatched>>

\* the consumer takes the item pop() returned and calls pop() again
queue_pop_return(t) ==
    /\ ~aborted /\ t \in DOMAIN wpc /\ wpc[t] = "got"
    /\ wpc' = [wpc EXCEPT ![t] = "pop"]
    /\ UNCHANGED <<xVars, otherVars, q, mtVars, witem, pc, callVars, aborted, histVars>>

\* a thread calls trypop(&item)
queue_trypop ==
    /\ ~aborted /\ tpc = "trypop"
    /\ trypop
    /\ tpc' = "ret"
    /\ UNCHANGED <<xVars, uvVars, mtVars, wpc, witem, pc, callVars, aborted, pushed, dispatched>>

\* ... and goes on to call it again
queue_trypop_return ==
    /\ ~aborted /\ tpc = "ret"
    /\ tpc' = "trypop"
    /\ UNCHANGED <<xVars, tpItem, tpRet, uvVars, q, mtVars, wpc, witem, pc, callVars, aborted, histVars>>

\* ThreadMessageQueue(), with one thread about to call pop and one about to call trypop
InitQ ==
    /\ q = <<>>
    /\ threadActive = FALSE
    /\ threadCreated = FALSE
    /\ thread = 0
    /\ joined = {}
    /\ wpc = <<"pop">>
    /\ witem = <<NULL>>
    /\ pc = [c \in AllCallers |-> "idle"]
    /\ op = [c \in AllCallers |-> "none"]
    /\ arg = [c \in AllCallers |-> <<>>]
    /\ entry = [c \in AllCallers |-> "idle"]
    /\ nitems = 0
    /\ aborted = FALSE
    /\ tpc = "trypop"
    /\ tpItem = <<>>
    /\ tpRet = FALSE
    /\ apending = FALSE
    /\ wakeups = 0
    /\ qAtWake = 0
    /\ pushed = <<>>
    /\ taken = <<>>
    /\ dispatched = <<>>
    /\ XInit

NextQ ==
    \/ queue_push
    \/ queue_push_multi
    \/ \E t \in ThreadIds :
        \/ pop(t)
        \/ spurious_wakeup(t)
        \/ queue_pop_return(t)
    \/ queue_trypop
    \/ queue_trypop_return

SpecQ == InitQ /\ [][NextQ]_vars

\* ------------------------------------------------------------------------
\* SpecL: the ThreadMessageQueue of SpecQ with its mutex made explicit: each
\* statement between mutex_lock and mutex_unlock is a step. Two producer
\* threads call push and push_multi, one thread calls pop in a loop, one
\* thread calls trypop in a loop.
\* ------------------------------------------------------------------------

\* the owner of the mutex when a thread inside trypop, inside pop holds it
TryPopper == "tp"
Popper == "pop"

\* a producer calls push(item)
lk_call_push(p) ==
    /\ ~aborted /\ pc[p] = "idle"
    /\ nitems < MaxItems
    /\ op' = [op EXCEPT ![p] = "push"]
    /\ arg' = [arg EXCEPT ![p] = <<nitems + 1>>]
    /\ nitems' = nitems + 1
    /\ Goto(p, "lock")
    /\ UNCHANGED <<q, mtVars, wpc, witem, entry, aborted, histVars, otherVars, closeVars,
                   lockVars, objVars>>

\* a producer calls push_multi(list)
lk_call_push_multi(p) ==
    /\ ~aborted /\ pc[p] = "idle"
    /\ \E k \in 0..MaxMulti :
        /\ nitems + k <= MaxItems
        /\ arg' = [arg EXCEPT ![p] = [i \in 1..k |-> nitems + i]]
        /\ batches' = batches \cup {[i \in 1..k |-> nitems + i]}
        /\ nitems' = nitems + k
    /\ op' = [op EXCEPT ![p] = "push_multi"]
    /\ Goto(p, "lock")
    /\ UNCHANGED <<q, mtVars, wpc, witem, entry, aborted, histVars, otherVars, closeVars,
                   mutexOwner, objVars>>

\* mutant of lk_lock: the mutex_lock of push and push_multi is forgotten
Mut_lk_no_lock(p) ==
    /\ ~aborted /\ pc[p] = "lock"
    /\ Goto(p, "append")
    /\ UNCHANGED <<q, mtVars, wpc, witem, callVars, aborted, histVars, otherVars, closeVars,
                   lockVars, objVars>>

\* push, push_multi: mutex_lock(mutex);
lk_lock(p) ==
    /\ ~aborted /\ pc[p] = "lock"
    /\ mutexOwner = "none"
    /\ mutexOwner' = p
    /\ Goto(p, "append")
    /\ UNCHANGED <<q, mtVars, wpc, witem, callVars, aborted, histVars, otherVars, closeVars,
                   batches, objVars>>

\* push: q.push(item); push_multi: one turn of for(...) q.push(*it);
lk_append(p) ==
    /\ ~aborted /\ pc[p] = "append"
    /\ arg[p] # <<>>
    /\ q' = push(q, Head(arg[p]))
    /\ pushed' = Append(pushed, Head(arg[p]))
    /\ arg' = [arg EXCEPT ![p] = Tail(@)]
    /\ UNCHANGED <<mtVars, wpc, witem, pc, op, entry, nitems, aborted, taken, dispatched,
                   otherVars, closeVars, lockVars, objVars>>

\* push, push_multi: condvar_signal(cond);
lk_signal(p) ==
    /\ ~aborted /\ pc[p] = "append"
    /\ arg[p] = <<>>
    /\ wpc' \in condvar_signal(wpc)
    /\ Goto(p, "unlock")
    /\ UNCHANGED <<q, mtVars, witem, callVars, aborted, histVars, otherVars, closeVars,
                   lockVars, objVars>>

\* push, push_multi: mutex_unlock(mutex);
lk_unlock(p) ==
    /\ ~aborted /\ pc[p] = "unlock"
    /\ mutexOwner' = IF mutexOwner = p THEN "none" ELSE mutexOwner
    /\ Goto(p, "idle")
    /\ UNCHANGED <<q, mtVars, wpc, witem, callVars, aborted, histVars, otherVars, closeVars,
                   batches, objVars>>

\* pop: mutex_lock(mutex), on entry or when a wait returns
lk_pop_lock(t) ==
    /\ ~aborted /\ t \in DOMAIN wpc /\ wpc[t] = "pop"
    /\ mutexOwner = "none"
    /\ mutexOwner' = Popper
    /\ wpc' = [wpc EXCEPT ![t] = "locked"]
    /\ UNCHANGED <<q, mtVars, witem, pc, callVars, aborted, histVars, otherVars, closeVars,
                   batches, objVars>>

\* pop: while(q.empty()) uv_cond_wait(&cond, &mutex); (the wait releases the mutex)
\* T item = q.front(); q.pop(); mutex_unlock(mutex);
lk_pop_body(t) ==
    /\ ~aborted /\ t \in DOMAIN wpc /\ wpc[t] = "locked"
    /\ IF empty(q)
       THEN /\ wpc' = [wpc EXCEPT ![t] = "waiting"]
            /\ UNCHANGED <<q, witem, taken>>
       ELSE /\ witem' = [witem EXCEPT ![t] = front(q)]
            /\ q' = pop_front(q)
            /\ taken' = Append(taken, front(q))
            /\ wpc' = [wpc EXCEPT ![t] = "got"]
    /\ mutexOwner' = "none"
    /\ UNCHANGED <<mtVars, pc, callVars, aborted, pushed, dispatched, otherVars, closeVars,
                   batches, objVars>>

\* trypop: mutex_lock(mutex);
lk_trypop_lock ==
    /\ ~aborted /\ tpc = "trypop"
    /\ mutexOwner = "none"
    /\ mutexOwner' = TryPopper
    /\ tpc' = "locked"
    /\ UNCHANGED <<tpItem, tpRet, uvVars, q, mtVars, wpc, witem, pc, callVars, aborted,
                   histVars, closeVars, batches, objVars>>

\* trypop: notEmpty = !q.empty(); if(notEmpty) {...} mutex_unlock(mutex); return notEmpty;
lk_trypop_body ==
    /\ ~aborted /\ tpc = "locked"
    /\ trypop
    /\ mutexOwner' = "none"
    /\ tpc' = "ret"
    /\ UNCHANGED <<uvVars, mtVars, wpc, witem, pc, callVars, aborted, pushed, dispatched,
                   closeVars, batches, objVars>>

ProducerStepL(p) ==
    \/ lk_call_push(p)
    \/ lk_call_push_multi(p)
    \/ lk_lock(p)
    \/ lk_append(p)
    \/ lk_signal(p)
    \/ lk_unlock(p)

ConsumerStepL(t) ==
    \/ lk_pop_lock(t)
    \/ lk_pop_body(t)
    \/ spurious_wakeup(t)
    \/ queue_pop_return(t)

NextL ==
    \/ \E p \in Producers : ProducerStepL(p)
    \/ \E t \in ThreadIds : ConsumerStepL(t)
    \/ lk_trypop_lock
    \/ lk_trypop_body
    \/ queue_trypop_return

SpecL == InitQ /\ [][NextL]_vars

\* ------------------------------------------------------------------------
\* SpecL1: SpecL with one consumer only (no thread calls trypop), under fair
\* scheduling: a thread inside a critical section goes on, and the consumer
\* waiting for the mutex gets it if it is free again and again. Nothing is
\* assumed about wakeups without a signal or about calls of the producers.
\* ------------------------------------------------------------------------

NextL1 ==
    \/ \E p \in Producers : ProducerStepL(p)
    \/ \E t \in ThreadIds : ConsumerStepL(t)

SpecL1 ==
    /\ InitQ /\ [][NextL1]_vars
    /\ \A p \in Producers :
        /\ WF_vars(lk_append(p))
        /\ WF_vars(lk_signal(p))
        /\ WF_vars(lk_unlock(p))
    /\ \A t \in ThreadIds :
        /\ SF_vars(lk_pop_lock(t))
        /\ WF_vars(lk_pop_body(t))

\* ------------------------------------------------------------------------
\* SpecN: one ThreadNotifyQueue: background threads call notify, the loop
\* thread runs the wakeup handler `notified`
\* ------------------------------------------------------------------------

\* the thread of the bridge's callback in `dispatched`
LoopThread == "loop"

\* notify(): q.push(item);
notify_push(n) ==
    /\ ~aborted /\ pc[n] = "idle"
    /\ nitems < MaxItems
    /\ q' = push(q, nitems + 1)
    /\ wpc' \in condvar_signal(wpc)
    /\ pushed' = Append(pushed, nitems + 1)
    /\ nitems' = nitems + 1
    /\ op' = [op EXCEPT ![n] = "notify"]
    /\ arg' = [arg EXCEPT ![n] = <<nitems + 1>>]
    /\ Goto(n, "async_send")
    /\ UNCHANGED <<xVars, otherVars, mtVars, witem, entry, aborted, taken, dispatched>>

\* mutant of notify_async_send: notify() returns without uv_async_send
Mut_notify_no_send(n) ==
    /\ ~aborted /\ pc[n] = "async_send"
    /\ Goto(n, "idle")
    /\ UNCHANGED <<xVars, tpVars, uvVars, q, mtVars, wpc, witem, callVars, aborted, histVars>>

\* notify(): uv_async_send(&a); sends to a handle still pending are coalesced
notify_async_send(n) ==
    /\ ~aborted /\ pc[n] = "async_send"
    /\ apending' = TRUE
    /\ Goto(n, "idle")
    /\ UNCHANGED <<xVars, tpVars, wakeups, qAtWake, q, mtVars, wpc, witem, callVars, aborted, histVars>>

\* the loop thread finds the handle pending, clears it and calls `notified`
\* (registered by uv_async_init(loop, &a, notified))
uv_async_io ==
    /\ ~aborted /\ tpc = "idle" /\ apending
    /\ closePc \notin {"closing", "closed"}
    /\ apending' = FALSE
    /\ tpc' = "trypop"
    /\ wakeups' = wakeups + 1
    /\ qAtWake' = Len(dispatched) + Len(q)
    /\ UNCHANGED <<xVars, tpItem, tpRet, q, mtVars, wpc, witem, pc, callVars, aborted, histVars>>

\* notified(): while(self->q.trypop(&notification)) (self->o->*(self->cb))(notification);
notified_trypop ==
    /\ ~aborted /\ tpc = "trypop"
    /\ trypop
    /\ IF trypop_ret(q)
       THEN /\ tpc' = "cb"
            /\ dispatched' = Append(dispatched, [t |-> LoopThread, item |-> trypop_item(q, tpItem)[1]])
       ELSE /\ tpc' = "idle"
            /\ UNCHANGED dispatched
    /\ UNCHANGED <<xVars, uvVars, mtVars, wpc, witem, pc, callVars, aborted, pushed>>

\* mutant of notified_cb_return: `if` in place of `while`, one item per wakeup
Mut_notified_one_item ==
    /\ ~aborted /\ tpc = "cb"
    /\ tpc' = "idle"
    /\ UNCHANGED <<xVars, tpItem, tpRet, uvVars, q, mtVars, wpc, witem, pc, callVars, aborted, histVars>>

\* the bound callback returns and the while loop calls trypop again
notified_cb_return ==
    /\ ~aborted /\ tpc = "cb"
    /\ tpc' = "trypop"
    /\ UNCHANGED <<xVars, tpItem, tpRet, uvVars, q, mtVars, wpc, witem, pc, callVars, aborted, histVars>>

NextN ==
    \/ \E n \in Producers :
        \/ notify_push(n)
        \/ notify_async_send(n)
    \/ uv_async_io
    \/ notified_trypop
    \/ notified_cb_return

\* ThreadNotifyQueue(loop, object, callback): the state is that of Init
SpecN == Init /\ [][NextN]_vars

\* ------------------------------------------------------------------------
\* SpecNC: the ThreadNotifyQueue of SpecN with close(data, closeCb). close is
\* called on the loop thread (uv_close is not thread safe), either between two
\* handlers or from inside the bound callback.
\* ------------------------------------------------------------------------

\* the values handed to close as `data`
CloseData == {"d1", "d2"}

\* where the loop thread continues when close() returns
AfterClose == IF tpc = "close_in_cb" THEN "cb" ELSE "idle"

\* close(): auto* d = new tnqCloseWrap; d->cb = closeCb; d->data = data; a.data = d;
close_set_data ==
    /\ ~aborted /\ closePc = "open" /\ tpc \in {"idle", "cb"}
    /\ \E d \in CloseData : closeArg' = <<d>>
    /\ closePc' = "data_set"
    /\ tpc' = IF tpc = "cb" THEN "close_in_cb" ELSE "close"
    /\ UNCHANGED <<closeLog, lockVars, objVars, tpItem, tpRet, uvVars, q, mtVars, wpc, witem,
                   pc, callVars, aborted, histVars>>

\* mutant of close_uv_close: uv_close is not called, the handle stays active
Mut_close_no_uv_close ==
    /\ ~aborted /\ closePc = "data_set"
    /\ tpc' = AfterClose
    /\ UNCHANGED <<closeVars, lockVars, objVars, tpItem, tpRet, uvVars, q, mtVars, wpc, witem,
                   pc, callVars, aborted, histVars>>

\* close(): uv_close(reinterpret_cast<uv_handle_t*>(&a), ...): the handle is stopped, the
\* loop no longer runs `notified` for it, and the close callback is left for the loop to run
close_uv_close ==
    /\ ~aborted /\ closePc = "data_set"
    /\ closePc' = "closing"
    /\ tpc' = AfterClose
    /\ UNCHANGED <<closeArg, closeLog, lockVars, objVars, tpItem, tpRet, uvVars, q, mtVars,
                   wpc, witem, pc, callVars, aborted, histVars>>

\* the loop thread, between two handlers, releases the handle and runs the lambda given to
\* uv_close: auto* d = handle->data; d->cb(d->data); delete d;
uv_close_cb ==
    /\ ~aborted /\ closePc = "closing" /\ tpc = "idle"
    /\ closeLog' = Append(closeLog, closeArg[1])
    /\ closePc' = "closed"
    /\ UNCHANGED <<closeArg, lockVars, objVars, tpVars, uvVars, q, mtVars, wpc, witem,
                   pc, callVars, aborted, histVars>>

NextNC ==
    \/ \E n \in Producers :
        \/ notify_push(n)
        \/ notify_async_send(n)
    \/ uv_async_io
    \/ notified_trypop
    \/ notified_cb_return
    \/ close_set_data
    \/ close_uv_close
    \/ uv_close_cb

\* the loop thread keeps running: a handler that has started goes on, and a handle being
\* closed gets its close callback. Nothing is assumed about the notifying threads.
SpecNC ==
    /\ Init /\ [][NextNC]_vars
    /\ WF_vars(notified_trypop)
    /\ WF_vars(notified_cb_return)
    /\ WF_vars(close_uv_close)
    /\ WF_vars(uv_close_cb)

\* ------------------------------------------------------------------------
\* Objects: construction, move and destruction of several instances by one
\* thread. objs[o] holds the members of object o; res[r] counts how often
\* the mutex/cond pair r (initialised together, destroyed together) was
\* destroyed. `build` is "uv" with USE_LIBUV (uv_mutex_t members, copied by
\* value) and "std" without (std::unique_ptr members).
\* ------------------------------------------------------------------------

Objs == 1..MaxObjs
Builds == {"uv", "std"}

\* storage no constructor has run on
\* (movedAs is history: what the worker was doing when the object was move-constructed)
RawObj == [kind |-> "none", st |-> "raw", q |-> <<>>, mutex |-> 0, skip |-> FALSE,
           active |-> FALSE, created |-> FALSE, thread |-> 0, movedAs |-> "none"]

nonObjVars == <<q, mtVars, wpc, witem, pc, callVars, aborted, histVars, otherVars,
                closeVars, lockVars>>

\* mutex_destroy(mutex); condvar_destroy(cond); or the deleters of the two unique_ptr
destroy_pair(rs, r) == [rs EXCEPT ![r] = @ + 1]

\* ThreadMessageQueue(): mutex_init(mutex); condvar_init(cond); skipDestructor = false;
tmq_init(ob, r) == [ob EXCEPT !.q = <<>>, !.mutex = r, !.skip = FALSE]

\* mutant of tmq_move: other.skipDestructor = true is forgotten
Mut_tmq_move_no_skip(os, dst, src) ==
    [os EXCEPT ![dst].q = os[src].q,
               ![dst].mutex = os[src].mutex,
               ![dst].skip = FALSE,
               ![src].q = <<>>,
               ![src].mutex = IF build = "uv" THEN @ ELSE 0]

\* ThreadMessageQueue::move: the members of both objects after it. With USE_LIBUV
\* `mutex = other.mutex` copies the handle and leaves other.mutex as it was; without,
\* std::move leaves other.mutex null. The moved-from std::queue is left empty.
tmq_move(os, dst, src) ==
    [os EXCEPT ![dst].q = os[src].q,
               ![dst].mutex = os[src].mutex,
               ![dst].skip = FALSE,
               ![src].q = <<>>,
               ![src].mutex = IF build = "uv" THEN @ ELSE 0,
               ![src].skip = TRUE]

\* ThreadMessageQueue::move: the pairs after it. `mutex = std::move(other.mutex)` deletes
\* the mutex the destination held; `mutex = other.mutex` overwrites it and destroys nothing
tmq_move_res(os, rs, dst) ==
    IF build = "std" /\ os[dst].mutex # 0 THEN destroy_pair(rs, os[dst].mutex) ELSE rs

\* ~ThreadMessageQueue: if(skipDestructor) return; mutex_destroy(mutex); condvar_destroy(cond);
\* followed by the destructors of the members (the unique_ptr deleters, without USE_LIBUV)
tmq_dtor_res(ob, rs) ==
    IF build = "uv"
    THEN IF ob.skip THEN rs ELSE destroy_pair(rs, ob.mutex)
    ELSE IF ob.mutex # 0 THEN destroy_pair(rs, ob.mutex) ELSE rs

\* an object the calling code may still use: constructed, not destroyed, not moved from
\* (a moved-from object is only assigned to or destroyed)
Usable(o) == objs[o].st = "live" /\ ~objs[o].skip

\* storage is handed out in order: o is the next object to be constructed
Fresh(o) == objs[o].st = "raw" /\ \A p \in 1..(o - 1) : objs[p].st # "raw"

\* the calling thread is inside ~MessageThread
Busy == \E o \in Objs : objs[o].st = "dtor"

\* ThreadMessageQueue<T> x;
tmq_ctor(o) ==
    /\ ~aborted /\ ~Busy /\ Fresh(o)
    /\ objs' = [objs EXCEPT ![o] = tmq_init([@ EXCEPT !.kind = "tmq", !.st = "live"], Len(res) + 1)]
    /\ res' = Append(res, 0)
    /\ UNCHANGED <<nonObjVars, build, wself>>

\* ThreadMessageQueue<T> x(std::move(other));
tmq_move_ctor(o, s) ==
    /\ ~aborted /\ ~Busy /\ Fresh(o)
    /\ objs[s].kind = "tmq" /\ Usable(s)
    /\ LET os == [objs EXCEPT ![o].kind = "tmq", ![o].st = "live"]
       IN  /\ objs' = tmq_move(os, o, s)
           /\ res' = tmq_move_res(os, res, o)
    /\ UNCHANGED <<nonObjVars, build, wself>>

\* x = std::move(other); on a constructed x
tmq_move_assign(o, s) ==
    /\ ~aborted /\ o # s
    /\ objs[o].kind = "tmq" /\ objs[o].st = "live"
    /\ objs[s].kind = "tmq" /\ Usable(s)
    /\ objs' = tmq_move(objs, o, s)
    /\ res' = tmq_move_res(objs, res, o)
    /\ UNCHANGED <<nonObjVars, build, wself>>

\* x.push(item)
tmq_push(o) ==
    /\ ~aborted /\ ~Busy /\ objs[o].kind = "tmq" /\ Usable(o)
    /\ nitems < MaxItems
    /\ objs' = [objs EXCEPT ![o].q = push(@, nitems + 1)]
    /\ pushed' = Append(pushed, nitems + 1)
    /\ nitems' = nitems + 1
    /\ UNCHANGED <<q, mtVars, wpc, witem, pc, op, arg, entry, aborted, taken, dispatched,
                   otherVars, closeVars, lockVars, build, res, wself>>

\* x goes out of scope
tmq_dtor(o) ==
    /\ ~aborted /\ ~Busy /\ objs[o].kind = "tmq" /\ objs[o].st = "live"
    /\ objs' = [objs EXCEPT ![o].st = "destroyed"]
    /\ res' = tmq_dtor_res(objs[o], res)
    /\ UNCHANGED <<nonObjVars, build, wself>>

\* no object constructed yet, the build one of the two
InitObj ==
    /\ InitBase
    /\ closePc = "open"
    /\ closeArg = <<>>
    /\ closeLog = <<>>
    /\ mutexOwner = "none"
    /\ batches = {}
    /\ build \in Builds
    /\ objs = [o \in Objs |-> RawObj]
    /\ res = <<>>
    /\ wself = <<>>

\* ------------------------------------------------------------------------
\* SpecObj: ThreadMessageQueue objects constructed, move-constructed,
\* move-assigned, pushed to and destroyed by one thread
\* ------------------------------------------------------------------------

NextObj ==
    \E o \in Objs :
        \/ tmq_ctor(o)
        \/ tmq_push(o)
        \/ tmq_dtor(o)
        \/ \E s \in Objs :
            \/ tmq_move_ctor(o, s)
            \/ tmq_move_assign(o, s)

SpecObj == InitObj /\ [][NextObj]_vars

\* ------------------------------------------------------------------------
\* SpecMove: ThreadMessageQueue and MessageThread objects constructed,
\* move-constructed, used and destroyed by one thread, with the worker
\* threads of the MessageThread objects. A worker keeps the `parent`
\* pointer it was created with. An object is started at most once (no end()).
\* ------------------------------------------------------------------------

\* condvar_signal(cond) of object o's queue: wakes one of the threads waiting in o.q.pop()
obj_signal(w, o) ==
    LET waiters == {t \in DOMAIN w : w[t] = "waiting" /\ wself[t] = o}
    IN  IF waiters = {} THEN {w}
        ELSE {[w EXCEPT ![t] = "pop"] : t \in waiters}

\* what the worker of a MessageThread is doing
WorkerAt(ob) ==
    IF ~ob.created \/ ob.thread \notin DOMAIN wpc THEN "no worker"
    ELSE IF wpc[ob.thread] = "waiting" /\ ob.q = <<>> THEN "blocked in pop"
    ELSE "running"

\* MessageThread::move: q = std::move(other.q); thread = other.thread (std::move without
\* USE_LIBUV); the flags are copied and those of `other` cleared
mt_move(os, dst, src) ==
    [tmq_move(os, dst, src) EXCEPT
        ![dst].movedAs = WorkerAt(os[src]),
        ![dst].thread = os[src].thread,
        ![dst].active = os[src].active,
        ![dst].created = os[src].created,
        ![src].thread = IF build = "uv" THEN @ ELSE 0,
        ![src].active = FALSE,
        ![src].created = FALSE]

\* MessageThread x(callback);
mt_ctor(o) ==
    /\ ~aborted /\ ~Busy /\ Fresh(o)
    /\ objs' = [objs EXCEPT ![o] = tmq_init([@ EXCEPT !.kind = "mt", !.st = "live",
                                                      !.active = FALSE, !.created = FALSE],
                                            Len(res) + 1)]
    /\ res' = Append(res, 0)
    /\ UNCHANGED <<nonObjVars, build, wself>>

\* MessageThread x(std::move(other)); the member q is default-constructed, then move(other)
mt_move_ctor(o, s) ==
    /\ ~aborted /\ ~Busy /\ Fresh(o)
    /\ objs[s].kind = "mt" /\ Usable(s)
    /\ LET os == [objs EXCEPT ![o] = tmq_init([@ EXCEPT !.kind = "mt", !.st = "live"],
                                              Len(res) + 1)]
           rs == Append(res, 0)
       IN  /\ objs' = mt_move(os, o, s)
           /\ res' = tmq_move_res(os, rs, o)
    /\ UNCHANGED <<nonObjVars, build, wself>>

\* x.start() on an object that is not active: joins the thread of the previous
\* activation, if any, and creates a thread running thread_func(&x)
mt_start(o) ==
    /\ ~aborted /\ ~Busy /\ objs[o].kind = "mt" /\ Usable(o)
    /\ ~objs[o].active
    /\ Len(wpc) < MaxThreads
    /\ objs[o].created => (Joinable(objs[o].thread) /\ wpc[objs[o].thread] = "exited")
    /\ joined' = IF objs[o].created THEN joined \cup {objs[o].thread} ELSE joined
    /\ wpc' = Append(wpc, "pop")
    /\ witem' = Append(witem, NULL)
    /\ wself' = Append(wself, o)
    /\ objs' = [objs EXCEPT ![o].active = TRUE, ![o].created = TRUE, ![o].thread = Len(wpc) + 1]
    /\ UNCHANGED <<q, threadActive, threadCreated, thread, pc, callVars, aborted, histVars,
                   otherVars, closeVars, lockVars, build, res>>

\* x.send(item) on an active object: start() returns at once; q.push(item)
mt_send(o) ==
    /\ ~aborted /\ ~Busy /\ objs[o].kind = "mt" /\ Usable(o)
    /\ objs[o].active
    /\ nitems < MaxSends
    /\ objs' = [objs EXCEPT ![o].q = push(@, nitems + 1)]
    /\ wpc' \in obj_signal(wpc, o)
    /\ pushed' = Append(pushed, nitems + 1)
    /\ nitems' = nitems + 1
    /\ UNCHANGED <<q, mtVars, witem, pc, op, arg, entry, aborted, taken, dispatched,
                   otherVars, closeVars, lockVars, build, res, wself>>

\* ~MessageThread: if(threadActive) q.push(NULL);
mt_dtor_push(o) ==
    /\ ~aborted /\ ~Busy /\ objs[o].kind = "mt" /\ objs[o].st = "live"
    /\ IF objs[o].active
       THEN /\ objs' = [objs EXCEPT ![o].st = "dtor", ![o].q = push(@, NULL)]
            /\ wpc' \in obj_signal(wpc, o)
            /\ pushed' = Append(pushed, NULL)
       ELSE /\ objs' = [objs EXCEPT ![o].st = "dtor"]
            /\ UNCHANGED <<wpc, pushed>>
    /\ UNCHANGED <<q, mtVars, witem, pc, callVars, aborted, taken, dispatched,
                   otherVars, closeVars, lockVars, build, res, wself>>

\* ~MessageThread: if(threadCreated) thread_join(thread); then the destructor of the member q
mt_dtor_join(o) ==
    /\ ~aborted /\ objs[o].kind = "mt" /\ objs[o].st = "dtor"
    /\ IF objs[o].created
       THEN IF Joinable(objs[o].thread)
            THEN /\ wpc[objs[o].thread] = "exited"
                 /\ joined' = joined \cup {objs[o].thread}
                 /\ objs' = [objs EXCEPT ![o].st = "destroyed"]
                 /\ res' = tmq_dtor_res(objs[o], res)
                 /\ UNCHANGED aborted
            ELSE /\ aborted' = TRUE
                 /\ UNCHANGED <<joined, objs, res>>
       ELSE /\ objs' = [objs EXCEPT ![o].st = "destroyed"]
            /\ res' = tmq_dtor_res(objs[o], res)
            /\ UNCHANGED <<joined, aborted>>
    /\ UNCHANGED <<q, threadActive, threadCreated, thread, wpc, witem, pc, callVars, histVars,
                   otherVars, closeVars, lockVars, build, wself>>

\* the queue thread t pops is gone or has lost its mutex: the object `parent` points to was
\* destroyed, or (without USE_LIBUV) moved from, which left its mutex pointer null
PopUndefined(t) ==
    \/ objs[wself[t]].st = "destroyed"
    \/ build = "std" /\ objs[wself[t]].mutex = 0

\* thread_func: self->q.pop(), on the queue of the object `parent` points to
obj_pop(t) ==
    /\ ~aborted /\ t \in DOMAIN wself /\ wpc[t] = "pop"
    /\ \/ /\ PopUndefined(t)
          /\ aborted' = TRUE
          /\ UNCHANGED <<objs, wpc, witem>>
       \/ /\ IF empty(objs[wself[t]].q)
             THEN /\ wpc' = [wpc EXCEPT ![t] = "waiting"]
                  /\ UNCHANGED <<objs, witem>>
             ELSE /\ witem' = [witem EXCEPT ![t] = front(objs[wself[t]].q)]
                  /\ objs' = [objs EXCEPT ![wself[t]].q = pop_front(@)]
                  /\ wpc' = [wpc EXCEPT ![t] = "got"]
          /\ UNCHANGED aborted
    /\ UNCHANGED <<q, mtVars, pc, callVars, pushed, taken, dispatched, otherVars, closeVars,
                   lockVars, build, res, wself>>

NextMove ==
    \/ \E o \in Objs :
        \/ tmq_ctor(o)
        \/ tmq_dtor(o)
        \/ mt_ctor(o)
        \/ mt_start(o)
        \/ mt_send(o)
        \/ mt_dtor_push(o)
        \/ mt_dtor_join(o)
        \/ \E s \in Objs :
            \/ tmq_move_ctor(o, s)
            \/ mt_move_ctor(o, s)
    \/ \E t \in ThreadIds :
        \/ obj_pop(t)
        \/ spurious_wakeup(t)
        \/ thread_func_test(t)
        \/ thread_func_cb_return(t)

SpecMove == InitObj /\ [][NextMove]_vars

\* ------------------------------------------------------------------------
\* Properties
\* ------------------------------------------------------------------------

IsPrefix(a, b) == Len(a) <= Len(b) /\ a = SubSeq(b, 1, Len(a))

NonNull(x) == x # NULL

\* the items appended to the queue, in the order of the appends, sentinels left out
PushedItems == SelectSeq(pushed, NonNull)

\* the items passed to the callback, in the order of the invocations
DispatchedItems == [i \in 1..Len(dispatched) |-> dispatched[i].item]

\* C1: with any number of producer threads calling send/send_multi, the items are
\* passed to the callback in the order in which they were appended to the queue:
\* at every moment the sequence of callback invocations is the beginning of the
\* sequence of appends.
C1_DispatchInPushOrder == IsPrefix(DispatchedItems, PushedItems)

\* ---- one controlling thread (Spec) ----

Live == {t \in DOMAIN wpc : wpc[t] # "exited"}

SentinelCount == Len(pushed) - Len(PushedItems)

\* the callback invocations made by OS thread t
DispatchedBy(t) ==
    LET ByT(d) == d.t = t
        ds == SelectSeq(dispatched, ByT)
    IN  [i \in 1..Len(ds) |-> ds[i].item]

\* the run an appended value belongs to: one more than the sentinels appended before it
RunOfIndex(k) == 1 + Cardinality({j \in 1..(k - 1) : pushed[j] = NULL})

\* the items sent during run r (between sentinel r-1 and sentinel r)
RunItems(r) ==
    LET idx == {k \in 1..Len(pushed) : pushed[k] # NULL /\ RunOfIndex(k) = r}
        InRun(x) == \E k \in idx : pushed[k] = x
    IN  SelectSeq(pushed, InRun)

NoDuplicates(x) == \A i, j \in 1..Len(x) : x[i] = x[j] => i = j

\* C2: when the worker OS thread has exited (the handle's thread has left
\* thread_func), the callback has been invoked exactly once for each item sent
\* before end(), and it is never invoked with the sentinel.
C2_NoLoss ==
    /\ \A i \in 1..Len(dispatched) : dispatched[i].item # NULL
    /\ (thread # 0 /\ wpc[thread] = "exited") => DispatchedItems = PushedItems

C2_Witness ==
    /\ thread # 0 /\ wpc[thread] = "exited"
    /\ Len(dispatched) >= 2

\* C3: when the destructor has returned: if the instance was active the last
\* value pushed is the sentinel, every OS thread ever created has terminated (no
\* worker is left to touch the queue), and every item sent has been dispatched.
C3_DestructorJoins ==
    pc[Controller] = "destroyed" =>
        /\ threadActive => (pushed # <<>> /\ pushed[Len(pushed)] = NULL)
        /\ Live = {}
        /\ threadCreated => (thread # 0 /\ thread \in joined)
        /\ DispatchedItems = PushedItems

C3_Witness ==
    /\ pc[Controller] = "destroyed"
    /\ threadActive
    /\ entry[Controller] = "active"
    /\ Len(dispatched) >= 1

\* C4: at most one OS thread that has not terminated exists, and every thread
\* other than the one the handle holds has been joined (start() creates a thread
\* only after joining the previous one).
C4_OneLiveThread ==
    /\ Cardinality(Live) <= 1
    /\ \A t \in DOMAIN wpc : t # thread => t \in joined

C4_Witness ==
    /\ Len(wpc) = 2
    /\ wpc[2] # "exited"
    /\ 1 \in joined

\* C5: at most one callback invocation is in progress at any moment, also
\* across an end() followed by a restart.
C5_NoOverlap == Cardinality({t \in DOMAIN wpc : wpc[t] = "cb"}) <= 1

C5_Witness ==
    /\ Len(wpc) = 2
    /\ wpc[2] = "cb"
    /\ Len(DispatchedBy(1)) >= 1

\* C6: after a restart the items are dispatched by the thread created for the run
\* in which they were sent (never by the thread of another run), no item is
\* dispatched twice, and a thread that has exited has dispatched every item of
\* its run.
C6_Restart ==
    /\ \A t \in DOMAIN wpc : IsPrefix(DispatchedBy(t), RunItems(t))
    /\ \A t \in DOMAIN wpc : wpc[t] = "exited" => DispatchedBy(t) = RunItems(t)
    /\ NoDuplicates(DispatchedItems)

C6_Witness ==
    /\ Len(wpc) = 2
    /\ wpc[2] = "exited"
    /\ entry[Controller] = "stopping"
    /\ Len(DispatchedBy(1)) >= 1
    /\ Len(DispatchedBy(2)) >= 1

EndPcs == {"end_chk", "end_push", "end_clear"}

\* C7: end() on an instance that is not active returns at once and leaves the
\* queue, the flags and the thread handle unchanged and creates no thread; one
\* sentinel is pushed per activation however often end() is called; and no step
\* of end() waits.
C7_EndIdempotent ==
    /\ [][(pc[Controller] = "end_chk" /\ ~threadActive /\ pc'[Controller] # "end_chk")
            => /\ pc'[Controller] = "idle"
               /\ UNCHANGED <<q, threadActive, threadCreated, thread, joined, wpc, pushed>>]_vars
    /\ [](pc[Controller] = "idle" =>
            SentinelCount = Len(wpc) - (IF threadActive THEN 1 ELSE 0))
    /\ [](pc[Controller] \in EndPcs => ENABLED CallerStep(Controller))

C7_Witness ==
    /\ pc[Controller] = "idle"
    /\ op[Controller] = "end"
    /\ entry[Controller] = "stopping"
    /\ SentinelCount = 1

InSend(c) == op[c] = "send" /\ pc[c] \in StartPcs \cup {"push"}

\* C8 as stated: in every reachable state, a send() in progress can take its next
\* step without waiting for the worker thread.
C8_SendNeverWaits == InSend(Controller) => ENABLED CallerStep(Controller)

\* C8 amended: a send() called on an idle or active instance never waits; a send()
\* called on a stopping instance (end() called, thread not yet joined) waits only
\* in the thread_join of start(), and only while the old thread has not exited.
C8_SendWaitsOnlyInJoin ==
    InSend(Controller) =>
        \/ ENABLED CallerStep(Controller)
        \/ /\ entry[Controller] = "stopping"
           /\ pc[Controller] = "start_join"
           /\ Joinable(thread)
           /\ wpc[thread] # "exited"

C8_Witness ==
    /\ InSend(Controller)
    /\ pc[Controller] = "start_join"
    /\ wpc[thread] = "cb"
    /\ ~ENABLED CallerStep(Controller)

\* ---- the queue used directly (SpecQ) ----

\* C9: trypop never waits: a thread about to call it can always run it; on an
\* empty queue it returns false and leaves the queue and the output slot as they
\* were; on a non-empty queue it returns true, stores the head in the slot and
\* removes it; and whatever the interleaving with push, push_multi and pop, the
\* values removed so far followed by the queue are the values appended so far.
C9_TryPop ==
    /\ [][(tpc = "trypop" /\ tpc' = "ret") =>
            IF Len(q) = 0
            THEN tpRet' = FALSE /\ q' = q /\ tpItem' = tpItem
            ELSE tpRet' = TRUE /\ tpItem' = <<Head(q)>> /\ q' = Tail(q)]_vars
    /\ [](tpc = "trypop" => ENABLED queue_trypop)
    /\ [](taken \o q = pushed)

C9_Witness ==
    /\ tpc = "ret"
    /\ tpRet = FALSE
    /\ tpItem # <<>>
    /\ wpc[1] = "waiting"
    /\ Len(taken) >= 2

\* ---- the bridge (SpecN) ----

NotifyIdle == \A n \in Producers : pc[n] = "idle"

\* C10: the bound callback is invoked once per notified item, in the order of
\* the pushes of notify(): the invocations are always the beginning of the pushes;
\* once every notify() has returned and the loop has handled every wakeup, there
\* is exactly one invocation per notify(); and one run of the wakeup handler
\* delivers every item that was queued when it started.
C10_NotifyDelivery ==
    /\ IsPrefix(DispatchedItems, PushedItems)
    /\ (NotifyIdle /\ ~apending /\ tpc = "idle") =>
            (DispatchedItems = PushedItems /\ q = <<>>)
    /\ tpc = "idle" => Len(dispatched) >= qAtWake

C10_Witness ==
    /\ NotifyIdle /\ ~apending /\ tpc = "idle"
    /\ wakeups = 1
    /\ Len(dispatched) = 2
    /\ qAtWake = 2

\* ---- the bridge with close (SpecNC) ----

\* C11: after close(data, closeCb): the close callback is invoked at most once, with
\* the data given to close, by the loop thread between two handlers, and only when the
\* handle is released; a closing handle is eventually released; and from the moment
\* close() has replaced a.data the loop never starts `notified` for the handle.
C11_Close ==
    /\ [](Len(closeLog) <= 1)
    /\ [](closeLog # <<>> <=> closePc = "closed")
    /\ [](closePc = "closed" => closeLog = closeArg)
    /\ [][closeLog' # closeLog => (tpc = "idle" /\ closePc = "closing")]_vars
    /\ [][wakeups' # wakeups => (closePc = "open" /\ closePc' = "open")]_vars
    /\ (closePc = "data_set" ~> closePc = "closed")

C11_Witness ==
    /\ closePc = "closed"
    /\ closeLog = <<"d2">>
    /\ apending
    /\ q # <<>>
    /\ wakeups >= 1

\* ---- objects of ThreadMessageQueue (SpecObj) ----

Constructed == {o \in Objs : objs[o].st # "raw"}

AllDestroyed == Constructed # {} /\ \A o \in Constructed : objs[o].st = "destroyed"

\* C20: over construction, move construction, move assignment and destruction of
\* ThreadMessageQueue objects no mutex/cond pair is destroyed twice, and once every
\* object constructed has been destroyed every pair that was initialised has been
\* destroyed exactly once (none is leaked, in particular not the pair a constructed
\* queue held before it was move-assigned to).
C20_PairsDestroyedOnce ==
    /\ \A r \in DOMAIN res : res[r] <= 1
    /\ AllDestroyed => \A r \in DOMAIN res : res[r] = 1

\* ---- objects of ThreadMessageQueue and MessageThread (SpecMove) ----

Alive(o) == objs[o].st \in {"live", "dtor"}

QueueOf(o) == objs[o].q

C19_MoveTransfersWorker ==
    \A o \in Objs :
        (/\ objs[o].kind = "mt" /\ Alive(o) /\ objs[o].created
         /\ objs[o].movedAs = "blocked in pop"
         /\ objs[o].thread \in DOMAIN wpc
         /\ wpc[objs[o].thread] = "waiting")
            => QueueOf(o) = <<>>

\* ---- the queue with its mutex explicit (SpecL1, SpecL) ----

InPop(t) == t \in DOMAIN wpc /\ wpc[t] \in {"pop", "locked", "waiting"}

\* C13: pop() returns only from a non-empty queue and returns its head, which it
\* removes, also after a wakeup without a signal; a consumer is suspended in pop()
\* on a non-empty queue only while a producer is still inside the critical section
\* that appended, before its condvar_signal (no lost wakeup); and under fair
\* scheduling a pop() in progress while the queue is non-empty returns.
C13_Pop ==
    /\ [][\A t \in DOMAIN wpc : (wpc[t] # "got" /\ wpc'[t] = "got") =>
            (q # <<>> /\ witem'[t] = Head(q) /\ q' = Tail(q))]_vars
    /\ [](\A t \in DOMAIN wpc : (wpc[t] = "waiting" /\ q # <<>>) =>
            \E p \in Producers : mutexOwner = p /\ pc[p] = "append")
    /\ \A t \in ThreadIds :
            (InPop(t) /\ q # <<>>) ~> (t \in DOMAIN wpc /\ wpc[t] = "got")

C13_Witness ==
    /\ wpc[1] = "got"
    /\ witem[1] = 2
    /\ taken = <<1, 2>>
    /\ op["p1"] = "push_multi" /\ op["p2"] = "push"
    /\ q = <<3>>

\* the position of item x in the sequence of appends, 0 if it was not appended
PosPushed(x) ==
    IF \E i \in 1..Len(pushed) : pushed[i] = x
    THEN CHOOSE i \in 1..Len(pushed) : pushed[i] = x
    ELSE 0

\* C14: the items of one push_multi call are appended next to each other and in the
\* order of the list: an item of the list is appended directly after the item before
\* it in the list; and while a producer is inside the critical section of push or
\* push_multi the queue changes only by that producer's own appends (no push,
\* push_multi, pop or trypop of another thread gets in between).
C14_PushMultiAtomic ==
    /\ [](\A b \in batches : \A i \in 1..(Len(b) - 1) :
            PosPushed(b[i + 1]) # 0 =>
                (PosPushed(b[i]) # 0 /\ PosPushed(b[i + 1]) = PosPushed(b[i]) + 1))
    /\ [][(mutexOwner \in Producers /\ q' # q) =>
            (/\ pc[mutexOwner] = "append"
             /\ arg[mutexOwner] # <<>>
             /\ q' = Append(q, Head(arg[mutexOwner]))
             /\ arg'[mutexOwner] = Tail(arg[mutexOwner]))]_vars

C14_Witness ==
    /\ mutexOwner = "p1"
    /\ pc["p1"] = "append" /\ arg["p1"] = <<2>>
    /\ pc["p2"] = "lock" /\ arg["p2"] = <<3>>
    /\ tpc = "trypop" /\ tpItem = <<>>
    /\ wpc[1] = "pop" /\ taken = <<>>
    /\ q = <<1>>

\* ---- one controlling thread, fair scheduling (SpecFair) ----

DtorPcs == {"dtor_chk", "dtor_push", "dtor_chkcreated", "dtor_join"}

\* C15: with callbacks that return, one controlling thread and no item equal to the
\* sentinel: a destructor that was called returns, whatever state the instance was
\* in; the join inside start() on a restart completes; and no join ends the process.
C15_Termination ==
    /\ (pc[Controller] \in DtorPcs) ~> (pc[Controller] = "destroyed")
    /\ (pc[Controller] = "start_join") ~> (pc[Controller] = "start_setcreated")
    /\ [](~aborted)

C15_Witness ==
    /\ pc[Controller] = "destroyed"
    /\ Len(wpc) = 2
    /\ joined = {1, 2}
    /\ entry[Controller] = "active"
    /\ Len(dispatched) = 3

\* ---- the bridge, wakeups (SpecN) ----

\* C16 as stated: whenever the loop thread is outside the wakeup handler and the
\* queue is non-empty, a wakeup is pending.
C16_WakeupPending == (tpc = "idle" /\ q # <<>>) => apending

\* C16 amended: whenever the loop thread is outside the wakeup handler and the queue
\* is non-empty, a wakeup is pending or some notify() has pushed its item and has
\* not yet called uv_async_send; and every item pushed has been delivered or is
\* still in the queue, in push order.
C16_NoLostWakeup ==
    /\ (tpc = "idle" /\ q # <<>>) =>
            (apending \/ \E n \in Producers : pc[n] = "async_send")
    /\ DispatchedItems \o q = pushed

C16_Witness ==
    /\ tpc = "idle" /\ q # <<>>
    /\ ~apending
    /\ wakeups = 1
    /\ Len(dispatched) = 2
    /\ pc["p1"] = "async_send" /\ pc["p2"] = "idle"

\* ---- several producers (SpecMP) ----

\* C17: when producers call send()/send_multi() concurrently on an instance that is
\* not active, one worker thread is created, the process is not terminated, and no
\* item is dispatched twice.
C17_OneWorker ==
    /\ Len(wpc) <= 1
    /\ ~aborted
    /\ NoDuplicates(DispatchedItems)

\* ---- one controlling thread, sentinels (Spec) ----

\* the sentinels in the queue
NullsInQ == Cardinality({i \in 1..Len(q) : q[i] = NULL})

InDtor == pc[Controller] \in DtorPcs \cup {"destroyed"}

\* the worker of the handle has taken the sentinel or has left thread_func
WorkerStopped ==
    /\ thread \in DOMAIN wpc
    /\ \/ wpc[thread] = "exited"
       \/ wpc[thread] = "got" /\ witem[thread] = NULL

SentinelLast == NullsInQ = 1 /\ q[Len(q)] = NULL

\* C18 as stated: under start/send/send_multi/end calls of one thread, at any time:
\* the queue holds at most one sentinel; while threadActive is set it holds none;
\* and when threadCreated is set and threadActive is not, the worker has exited its
\* loop or exactly one sentinel is in the queue with no item behind it.
C18_SentinelAlways ==
    ~InDtor =>
        /\ NullsInQ <= 1
        /\ threadActive => NullsInQ = 0
        /\ (threadCreated /\ ~threadActive) =>
                ((thread \in DOMAIN wpc /\ wpc[thread] = "exited") \/ SentinelLast)

\* C18 amended: the queue holds at most one sentinel at any time; and whenever the
\* controlling thread is outside start(), end() and the destructor: an active
\* instance's queue holds no sentinel, and for an instance created but not active
\* the worker has taken the sentinel (after which it leaves its loop) or exactly
\* one sentinel is in the queue with no item behind it.
C18_SentinelAtRest ==
    /\ NullsInQ <= 1
    /\ (~InDtor /\ pc[Controller] \notin StartPcs \cup EndPcs) =>
        /\ threadActive => NullsInQ = 0
        /\ (threadCreated /\ ~threadActive) => (WorkerStopped \/ SentinelLast)

C18_Witness ==
    /\ pc[Controller] = "idle"
    /\ threadCreated /\ ~threadActive
    /\ SentinelLast /\ Len(q) = 3
    /\ wpc[thread] = "cb"

====
